---- MODULE Spec2Model ----
(***************************************************************************)
(* The parse tree of src/parser/Tree.cpp: nodes with a name, a parent      *)
(* pointer (_trunk) and an ordered vector of child pointers (_branches),   *)
(* together with the callers the source comments describe: a builder that  *)
(* links nodes, a consumer that walks an enumerate() snapshot and deletes  *)
(* nodes, and the recursive destructor.                                    *)
(***************************************************************************)
EXTENDS Integers, Sequences, FiniteSets, TLC

\* ------------------------------------------------------------------ bounds
NumNodes == 4      \* Tree objects constructed before the calls start
MaxSteps == 3      \* addBranch/removeBranch/replaceBranch calls in one run
MaxSegments == 3   \* segments in the path handed to find

NULL == 0
Nodes == 1..NumNodes
NodeOrNull == Nodes \cup {NULL}

\* Strings are sequences of characters, so that split really splits.
Separator == "/"
Names == {<<"a">>, <<"b">>}

VARIABLES
  _name,      \* Tree::_name      : node -> string
  _trunk,     \* Tree::_trunk     : node -> parent pointer or NULL
  _branches,  \* Tree::_branches  : node -> vector of child pointers
  freed,      \* node -> how many times `delete` has run on it (2 = deleted twice)
  pc,         \* "build" | "walk" | "deleted" | "found" | "ub" (undefined behaviour)
  all,        \* the caller's vector filled by enumerate()
  idx,        \* the caller's position in `all`
  steps,      \* number of mutating calls made so far
  last,       \* the last call: operation, receiver, arguments, result
  hist        \* which caller obligations every call so far has met

vars == <<_name, _trunk, _branches, freed, pc, all, idx, steps, last, hist>>

\* ------------------------------------------------------------ pure helpers

Range(s) == {s[i] : i \in 1..Len(s)}

\* The nodes reachable from the set `frontier` by one or more child links.
RECURSIVE ReachFrom(_, _, _)
ReachFrom(br, frontier, seen) ==
  LET next == UNION {Range(br[n]) : n \in frontier}
      new == next \ seen
  IN IF new = {} THEN seen ELSE ReachFrom(br, new, seen \cup new)

Descendants(br, n) == ReachFrom(br, {n}, {})
Subtree(br, n) == {n} \cup Descendants(br, n)
Ancestors(br, n) == {m \in Nodes : n \in Descendants(br, m)}
IsChild(br, n) == \E p \in Nodes : n \in Range(br[p])

\* The recursions of the source run on the machine stack. A chain of child
\* links longer than the number of nodes revisits a node, so it never ends:
\* a recursion that gets this deep is one that overflows the stack.
StackDepth == NumNodes + 1

\* The record of a call. `found` tells whether the scan of removeBranch or
\* replaceBranch hit its `if`; `path` is the string handed to find.
Call(op, self, a, b, ret, err) ==
  [op |-> op, self |-> self, a |-> a, b |-> b, ret |-> ret, err |-> err,
   found |-> FALSE, path |-> <<>>]

\* std::vector scan `for (i = begin; i != end; ++i) if (*i == x)`: the first
\* index at or after i holding x, 0 when the loop runs off the end.
RECURSIVE ScanFrom(_, _, _)
ScanFrom(v, x, i) ==
  IF i > Len(v) THEN 0
  ELSE IF v[i] = x THEN i
  ELSE ScanFrom(v, x, i + 1)

\* std::vector::erase (i)
Erase(v, i) == [k \in 1..(Len(v) - 1) |-> IF k < i THEN v[k] ELSE v[k + 1]]

\* ------------------------------------------------------ caller obligations

\* The node handed over is a real, detached node ...
Detached(br, n) == n # NULL /\ ~IsChild(br, n)
\* ... and linking it under `self` closes no loop.
NoLoop(br, self, n) == n # NULL /\ n \notin ({self} \cup Ancestors(br, self))

\* --------------------------------------------------------------- the calls

\* (a slip: the branch is pushed twice)
added_PushTwice(br, tr, self, branch) ==
  [br |-> [br EXCEPT ![self] = Append(Append(@, branch), branch)],
   tr |-> [tr EXCEPT ![branch] = self]]

\* (a slip: the branch is put in front)
added_Prepend(br, tr, self, branch) ==
  [br |-> [br EXCEPT ![self] = <<branch>> \o @],
   tr |-> [tr EXCEPT ![branch] = self]]

\* The two assignments of Tree::addBranch, made with a branch that is not
\* NULL: the vectors and the parent pointers they leave.
added(br, tr, self, branch) ==
  [br |-> [br EXCEPT ![self] = Append(@, branch)],
   tr |-> [tr EXCEPT ![branch] = self]]

\* Tree::addBranch
addBranch(self, branch) ==
  /\ pc = "build"
  /\ steps < MaxSteps
  /\ steps' = steps + 1
  /\ hist' = [hist EXCEPT !.addOk = @ /\ Detached(_branches, branch),
                          !.loopOk = @ /\ NoLoop(_branches, self, branch)]
  /\ IF branch = NULL
     THEN /\ last' = Call("addBranch", self, branch, NULL, NULL, "throw")
          /\ UNCHANGED <<_trunk, _branches>>
     ELSE /\ _trunk' = added(_branches, _trunk, self, branch).tr
          /\ _branches' = added(_branches, _trunk, self, branch).br
          /\ last' = Call("addBranch", self, branch, NULL, branch, "")
  /\ UNCHANGED <<_name, freed, pc, all, idx>>

\* (a slip: the slot is found and left where it is)
erased_NoErase(v, branch) == v

\* The loop of Tree::removeBranch on the vector v: the first slot holding
\* `branch` is erased; the vector is left alone when the scan finds none.
erased(v, branch) ==
  LET i == ScanFrom(v, branch, 1)
  IN IF i # 0 THEN Erase(v, i) ELSE v

\* Tree::removeBranch
removeBranch(self, branch) ==
  /\ pc = "build"
  /\ steps < MaxSteps
  /\ steps' = steps + 1
  /\ _branches' = [_branches EXCEPT ![self] = erased(@, branch)]
  /\ last' = [Call("removeBranch", self, branch, NULL, NULL, "")
                EXCEPT !.found = ScanFrom(_branches[self], branch, 1) # 0]
  /\ UNCHANGED <<_name, _trunk, freed, pc, all, idx, hist>>

\* (a slip: the new branch is not told its parent)
replaced_NoTrunk(br, tr, self, from, to) ==
  LET i == ScanFrom(br[self], from, 1)
  IN IF i = 0 THEN [br |-> br, tr |-> tr]
     ELSE [br |-> [br EXCEPT ![self][i] = to], tr |-> tr]

\* (a slip: the old branch is erased and the new one pushed at the end)
replaced_EraseAppend(br, tr, self, from, to) ==
  LET i == ScanFrom(br[self], from, 1)
  IN IF i = 0 THEN [br |-> br, tr |-> tr]
     ELSE [br |-> [br EXCEPT ![self] = Append(Erase(@, i), to)],
           tr |-> [tr EXCEPT ![to] = self]]

\* (a slip: the parent is set before the scan, found or not)
replaced_TrunkFirst(br, tr, self, from, to) ==
  LET i == ScanFrom(br[self], from, 1)
      tr2 == IF to = NULL THEN tr ELSE [tr EXCEPT ![to] = self]
  IN IF i = 0 THEN [br |-> br, tr |-> tr2]
     ELSE [br |-> [br EXCEPT ![self][i] = to], tr |-> tr2]

\* (a slip: `this` is stored in the slot in place of `to`)
replaced_SelfSlot(br, tr, self, from, to) ==
  LET i == ScanFrom(br[self], from, 1)
  IN IF i = 0 THEN [br |-> br, tr |-> tr]
     ELSE [br |-> [br EXCEPT ![self][i] = self],
           tr |-> [tr EXCEPT ![to] = self]]

\* The loop of Tree::replaceBranch, called with a `to` that is not NULL when
\* `from` is there: the vectors and the parent pointers it leaves.
replaced(br, tr, self, from, to) ==
  LET i == ScanFrom(br[self], from, 1)
  IN IF i = 0 THEN [br |-> br, tr |-> tr]
     ELSE [br |-> [br EXCEPT ![self][i] = to],
           tr |-> [tr EXCEPT ![to] = self]]

\* Tree::replaceBranch. `to->_trunk = this` with to == NULL writes through a
\* null pointer: undefined behaviour, after which nothing is assumed.
replaceBranch(self, from, to) ==
  /\ pc = "build"
  /\ steps < MaxSteps
  /\ steps' = steps + 1
  /\ LET i == ScanFrom(_branches[self], from, 1)
     IN IF i = 0
        THEN /\ last' = Call("replaceBranch", self, from, to, NULL, "")
             /\ _trunk' = replaced(_branches, _trunk, self, from, to).tr
             /\ _branches' = replaced(_branches, _trunk, self, from, to).br
             /\ UNCHANGED <<pc, hist>>
        ELSE /\ hist' = [hist EXCEPT !.toOk = @ /\ Detached(_branches, to),
                                     !.loopOk = @ /\ NoLoop(_branches, self, to)]
             /\ IF to = NULL
                THEN /\ pc' = "ub"
                     /\ last' = [Call("replaceBranch", self, from, to, NULL, "null-deref")
                                   EXCEPT !.found = TRUE]
                     /\ UNCHANGED <<_trunk, _branches>>
                ELSE /\ _trunk' = replaced(_branches, _trunk, self, from, to).tr
                     /\ _branches' = replaced(_branches, _trunk, self, from, to).br
                     /\ last' = [Call("replaceBranch", self, from, to, NULL, "")
                                   EXCEPT !.found = TRUE]
                     /\ UNCHANGED pc
  /\ UNCHANGED <<_name, freed, all, idx>>


\* ------------------------------------------------------------- recursions

Overflow == [ok |-> FALSE, list |-> <<>>]
Returned(list) == [ok |-> TRUE, list |-> list]

\* (a slip: the branch is pushed before its own enumeration)
RECURSIVE enumerateFrom_PreOrder(_, _, _, _)
enumerateFrom_PreOrder(br, self, i, d) ==
  IF d = 0 THEN Overflow
  ELSE IF i > Len(br[self]) THEN Returned(<<>>)
  ELSE LET b == br[self][i]
           sub == enumerateFrom_PreOrder(br, b, 1, d - 1)
           rest == enumerateFrom_PreOrder(br, self, i + 1, d)
       IN IF sub.ok /\ rest.ok
          THEN Returned(<<b>> \o sub.list \o rest.list)
          ELSE Overflow

\* Tree::enumerate, from the i-th branch on, with d stack frames left:
\* for each branch, first the branch's own enumeration, then the branch.
RECURSIVE enumerateFrom(_, _, _, _)
enumerateFrom(br, self, i, d) ==
  IF d = 0 THEN Overflow
  ELSE IF i > Len(br[self]) THEN Returned(<<>>)
  ELSE LET b == br[self][i]
           sub == enumerateFrom(br, b, 1, d - 1)
           rest == enumerateFrom(br, self, i + 1, d)
       IN IF sub.ok /\ rest.ok
          THEN Returned(sub.list \o <<b>> \o rest.list)
          ELSE Overflow

enumerate(br, self) == enumerateFrom(br, self, 1, StackDepth)

\* Tree::count, from the i-th branch on; -1 when the recursion never returns.
RECURSIVE countFrom(_, _, _, _)
countFrom(br, self, i, d) ==
  IF d = 0 THEN -1
  ELSE IF i > Len(br[self]) THEN 0
  ELSE LET sub == countFrom(br, br[self][i], 1, d - 1)
           rest == countFrom(br, self, i + 1, d)
       IN IF sub = -1 \/ rest = -1 THEN -1 ELSE 1 + sub + rest

count(br, self) ==
  LET branches == countFrom(br, self, 1, StackDepth)
  IN IF branches = -1 THEN -1 ELSE 1 + branches

\* (a slip: the loop deletes its first branch and stops)
RECURSIVE destructorFrom_FirstBranchOnly(_, _, _, _)
destructorFrom_FirstBranchOnly(br, self, i, d) ==
  IF d = 0 THEN Overflow
  ELSE IF i > Len(br[self]) THEN Returned(<<>>)
  ELSE LET b == br[self][i]
           sub == destructorFrom_FirstBranchOnly(br, b, 1, d - 1)
       IN IF sub.ok
          THEN Returned(Append(sub.list, b))
          ELSE Overflow

\* Tree::~Tree, from the i-th branch on: `delete *i` runs the branch's
\* destructor and then frees the branch. The list is the order of the frees.
RECURSIVE destructorFrom(_, _, _, _)
destructorFrom(br, self, i, d) ==
  IF d = 0 THEN Overflow
  ELSE IF i > Len(br[self]) THEN Returned(<<>>)
  ELSE LET b == br[self][i]
           sub == destructorFrom(br, b, 1, d - 1)
           rest == destructorFrom(br, self, i + 1, d)
       IN IF sub.ok /\ rest.ok
          THEN Returned(sub.list \o <<b>> \o rest.list)
          ELSE Overflow

\* `delete n`: the destructor of n, then n itself is freed.
deleteOrder(br, n) ==
  LET d == destructorFrom(br, n, 1, StackDepth)
  IN IF d.ok THEN Returned(Append(d.list, n)) ELSE Overflow

Occurrences(list, n) == Cardinality({i \in 1..Len(list) : list[i] = n})
Min2(x) == IF x > 2 THEN 2 ELSE x
\* The free counts after the frees of `list`; 2 stands for "more than once".
FreedAfter(fr, list) == [n \in Nodes |-> Min2(fr[n] + Occurrences(list, n))]

\* ------------------------------------------------------- shape of the heap

ParentChildConsistent(br, tr) ==
  \A a \in Nodes, b \in Nodes : b \in Range(br[a]) => tr[b] = a

NoAliasing(br) ==
  /\ \A a \in Nodes : \A i, j \in 1..Len(br[a]) : i # j => br[a][i] # br[a][j]
  /\ \A a, b \in Nodes : a # b => Range(br[a]) \cap Range(br[b]) = {}

Acyclic(br) == \A n \in Nodes : n \notin Descendants(br, n)

\* The tree below r is a tree: inside it every child points back at its
\* parent, no node is held twice, and no node is its own descendant.
WellFormedTree(br, tr, r) ==
  LET T == Subtree(br, r)
  IN /\ \A a \in T : \A i \in 1..Len(br[a]) : tr[br[a][i]] = a
     /\ \A a \in T : \A i, j \in 1..Len(br[a]) : i # j => br[a][i] # br[a][j]
     /\ \A a, b \in T : a # b => Range(br[a]) \cap Range(br[b]) = {}
     /\ \A n \in T : n \notin Descendants(br, n)

\* ------------------------------------------------ the destructor, as a call

\* `delete self` by the owner of a node.
DeleteTree(self) ==
  /\ pc = "build"
  /\ LET o == deleteOrder(_branches, self)
     IN IF ~o.ok
        THEN /\ pc' = "ub"
             /\ last' = Call("delete", self, NULL, NULL, NULL, "stack-overflow")
             /\ UNCHANGED freed
        ELSE /\ freed' = FreedAfter(freed, o.list)
             /\ IF \E n \in Nodes : freed'[n] > 1
                THEN /\ pc' = "ub"
                     /\ last' = Call("delete", self, NULL, NULL, NULL, "double-delete")
                ELSE /\ pc' = "deleted"
                     /\ last' = Call("delete", self, NULL, NULL, NULL, "")
  /\ UNCHANGED <<_name, _trunk, _branches, all, idx, steps, hist>>

\* ------------------------------------- the walk over an enumerate snapshot

\* std::vector <Tree*> all; self->enumerate (all);
TakeSnapshot(self) ==
  /\ pc = "build"
  /\ LET r == enumerate(_branches, self)
     IN IF r.ok
        THEN /\ all' = r.list
             /\ idx' = 1
             /\ pc' = "walk"
             /\ last' = Call("enumerate", self, NULL, NULL, NULL, "")
             /\ hist' = [hist EXCEPT !.wfSnap = WellFormedTree(_branches, _trunk, self)]
        ELSE /\ pc' = "ub"
             /\ last' = Call("enumerate", self, NULL, NULL, NULL, "stack-overflow")
             /\ UNCHANGED <<all, idx, hist>>
  /\ UNCHANGED <<_name, _trunk, _branches, freed, steps>>

\* The walk looks at all[idx] and keeps it.
WalkKeep ==
  /\ pc = "walk"
  /\ idx <= Len(all)
  /\ LET e == all[idx]
     IN IF freed[e] > 0
        THEN /\ pc' = "ub"
             /\ last' = Call("keep", e, NULL, NULL, NULL, "use-after-free")
             /\ UNCHANGED idx
        ELSE /\ idx' = idx + 1
             /\ last' = Call("keep", e, NULL, NULL, NULL, "")
             /\ UNCHANGED pc
  /\ UNCHANGED <<_name, _trunk, _branches, freed, all, steps, hist>>

\* The walk detaches all[idx] from its parent and deletes it:
\*   e->_trunk->removeBranch (e); delete e;
WalkDestroy ==
  /\ pc = "walk"
  /\ idx <= Len(all)
  /\ LET e == all[idx]
         p == _trunk[e]
     IN IF freed[e] > 0 \/ (p # NULL /\ freed[p] > 0)
        THEN /\ pc' = "ub"
             /\ last' = Call("destroy", e, p, NULL, NULL, "use-after-free")
             /\ UNCHANGED <<_branches, freed, idx>>
        ELSE IF p = NULL
        THEN /\ pc' = "ub"
             /\ last' = Call("destroy", e, p, NULL, NULL, "null-deref")
             /\ UNCHANGED <<_branches, freed, idx>>
        ELSE LET br == [_branches EXCEPT ![p] = erased(@, e)]
                 o == deleteOrder(br, e)
             IN /\ _branches' = br
                /\ idx' = idx + 1
                /\ IF ~o.ok
                   THEN /\ pc' = "ub"
                        /\ last' = Call("destroy", e, p, NULL, NULL, "stack-overflow")
                        /\ UNCHANGED freed
                   ELSE /\ freed' = FreedAfter(freed, o.list)
                        /\ IF \E n \in Nodes : freed'[n] > 1
                           THEN /\ pc' = "ub"
                                /\ last' = Call("destroy", e, p, NULL, NULL, "double-delete")
                           ELSE /\ last' = Call("destroy", e, p, NULL, NULL, "")
                                /\ UNCHANGED pc
  /\ UNCHANGED <<_name, _trunk, all, steps, hist>>

\* -------------------------------------------------------------------- find

\* split (elements, path, '/'): the pieces of s between separators, an empty
\* string giving no piece at all. `cur` is the piece being read at index i.
RECURSIVE splitFrom(_, _, _)
splitFrom(s, i, cur) ==
  IF i > Len(s) THEN <<cur>>
  ELSE IF s[i] = Separator THEN <<cur>> \o splitFrom(s, i + 1, <<>>)
  ELSE splitFrom(s, i + 1, Append(cur, s[i]))

split(s) == IF s = <<>> THEN <<>> ELSE splitFrom(s, 1, <<>>)

\* (a slip: no `break`, so the last branch of that name wins)
RECURSIVE findBranch_LastMatch(_, _, _, _, _)
findBranch_LastMatch(nm, br, cursor, element, i) ==
  IF i > Len(br[cursor]) THEN NULL
  ELSE LET later == findBranch_LastMatch(nm, br, cursor, element, i + 1)
       IN IF later # NULL THEN later
          ELSE IF nm[br[cursor][i]] = element THEN br[cursor][i]
          ELSE NULL

\* The inner loop of Tree::find: the first branch of cursor, at or after
\* index i, whose name is `element`; NULL when the loop ends without one.
RECURSIVE findBranch(_, _, _, _, _)
findBranch(nm, br, cursor, element, i) ==
  IF i > Len(br[cursor]) THEN NULL
  ELSE IF nm[br[cursor][i]] = element THEN br[cursor][i]
  ELSE findBranch(nm, br, cursor, element, i + 1)

\* The outer loop of Tree::find, with the iterator at elements[it].
RECURSIVE findLoop(_, _, _, _, _)
findLoop(nm, br, cursor, elements, it) ==
  IF it > Len(elements) THEN cursor
  ELSE LET b == findBranch(nm, br, cursor, elements[it], 1)
       IN IF b = NULL THEN NULL
          ELSE findLoop(nm, br, b, elements, it + 1)

\* Tree::find on already split elements (at least one).
findElements(nm, br, self, elements) ==
  IF nm[self] # elements[1] THEN NULL
  ELSE IF Len(elements) = 1 THEN self
  ELSE findLoop(nm, br, self, elements, 2)

\* Tree::find. An empty path splits into no elements and `*it` then reads
\* through elements.end (): undefined behaviour.
Find(self, path) ==
  /\ pc = "build"
  /\ LET elements == split(path)
     IN IF elements = <<>>
        THEN /\ pc' = "ub"
             /\ last' = [Call("find", self, NULL, NULL, NULL, "end-deref") EXCEPT !.path = path]
        ELSE /\ last' = [Call("find", self, NULL, NULL,
                              findElements(_name, _branches, self, elements), "")
                           EXCEPT !.path = path]
             /\ pc' = "found"
  /\ UNCHANGED <<_name, _trunk, _branches, freed, all, idx, steps, hist>>

\* The paths handed to find: up to MaxSegments pieces, each a name or empty,
\* written with the separator between them.
Pieces == Names \cup {<<>>}
RECURSIVE PieceLists(_)
PieceLists(n) ==
  IF n = 0 THEN {<<>>}
  ELSE LET shorter == PieceLists(n - 1)
       IN shorter \cup {Append(l, x) : l \in {t \in shorter : Len(t) = n - 1}, x \in Pieces}
RECURSIVE Joined(_)
Joined(l) ==
  IF Len(l) = 0 THEN <<>>
  ELSE IF Len(l) = 1 THEN l[1]
  ELSE l[1] \o <<Separator>> \o Joined(Tail(l))
Paths == {Joined(l) : l \in PieceLists(MaxSegments)}

\* ------------------------------------------------------------------- specs

InitNamed(names) ==
  /\ _name \in names
  /\ _trunk = [n \in Nodes |-> NULL]
  /\ _branches = [n \in Nodes |-> <<>>]
  /\ freed = [n \in Nodes |-> 0]
  /\ pc = "build"
  /\ all = <<>>
  /\ idx = 0
  /\ steps = 0
  /\ last = Call("Tree", NULL, NULL, NULL, NULL, "")
  /\ hist = [addOk |-> TRUE, toOk |-> TRUE, loopOk |-> TRUE, wfSnap |-> FALSE]

\* A node exactly as the constructor left it. While all names are equal such
\* nodes are interchangeable, so a call that brings in new ones takes the
\* lowest-numbered first: `Pick(prev)` are the nodes a call may name after
\* naming those in prev.
Pristine(n) == _trunk[n] = NULL /\ _branches[n] = <<>>
Fresh(prev) ==
  LET P == {n \in Nodes \ prev : Pristine(n)}
  IN IF P = {} THEN {} ELSE {CHOOSE n \in P : \A m \in P : n <= m}
Pick(prev) == {n \in Nodes : ~Pristine(n)} \cup prev \cup Fresh(prev)

\* Any calls whatever, between nodes of one name; then a teardown or a walk.
Init == InitNamed({[n \in Nodes |-> <<"a">>]})

Next ==
  \/ \E self \in Pick({}) : \E branch \in Pick({self}) \cup {NULL} :
       addBranch(self, branch)
  \/ \E self \in Pick({}) : \E branch \in Pick({self}) :
       removeBranch(self, branch)
  \/ \E self \in Pick({}) : \E from \in Pick({self}) :
       \E to \in Pick({self, from}) \cup {NULL} : replaceBranch(self, from, to)
  \/ \E self \in Pick({}) : DeleteTree(self)
  \/ \E self \in Pick({}) : TakeSnapshot(self)
  \/ WalkKeep
  \/ WalkDestroy

Spec == Init /\ [][Next]_vars

\* A parser's build: nodes of any names, each new node hung below one already
\* in the tree of node 1; then a lookup by path.
InitFind == InitNamed([Nodes -> Names])

NextFind ==
  \/ \E self \in Nodes, branch \in Nodes :
       /\ branch = steps + 2
       /\ self < branch
       /\ addBranch(self, branch)
  \/ \E self \in Nodes, path \in Paths : Find(self, path)

SpecFind == InitFind /\ [][NextFind]_vars

\* ------------------------------------------------------------------ claims

\* C1 as stated: once every node handed to addBranch was non-null and not a
\* child of any node, each node found in A's children has A as its _trunk.
C1_AsStated ==
  (pc = "build" /\ hist.addOk) => ParentChildConsistent(_branches, _trunk)

\* C1: when, besides, every node a replaceBranch call put into a slot was
\* non-null and not a child of any node, each node found in A's children has
\* A as its _trunk.
C1_ParentOfEveryChild ==
  (pc = "build" /\ hist.addOk /\ hist.toOk)
    => ParentChildConsistent(_branches, _trunk)

C1_Witness ==
  /\ pc = "build" /\ hist.addOk /\ hist.toOk
  /\ last.op = "replaceBranch" /\ last.found
  /\ _trunk[last.b] = last.self
  /\ _trunk[last.a] = last.self
  /\ \E n \in Nodes : n # last.self /\ _branches[n] # <<>>

\* C2 as stated: under the obligation on addBranch alone, no node occurs
\* twice among one node's children or among the children of two nodes.
C2_AsStated == (pc = "build" /\ hist.addOk) => NoAliasing(_branches)

\* C2: under the obligation on addBranch and the same obligation on the node
\* replaceBranch puts in, no node occurs twice among one node's children or
\* among the children of two nodes.
C2_NoNodeHeldTwice ==
  (pc = "build" /\ hist.addOk /\ hist.toOk) => NoAliasing(_branches)

C2_Witness ==
  /\ pc = "build" /\ hist.addOk /\ hist.toOk
  /\ last.op = "addBranch" /\ last.ret # NULL
  /\ Len(_branches[last.self]) = 2
  /\ \E n \in Nodes : _trunk[n] # NULL /\ ~IsChild(_branches, n)

Terminates(br) ==
  \A n \in Nodes :
    /\ count(br, n) # -1
    /\ enumerate(br, n).ok
    /\ deleteOrder(br, n).ok

\* C10 as stated: under the obligation on addBranch alone, no node is its own
\* descendant and count, enumerate and the destructor return on every node.
C10_AsStated ==
  (pc = "build" /\ hist.addOk) => (Acyclic(_branches) /\ Terminates(_branches))

\* C10: when, besides, no node handed to addBranch or put in by replaceBranch
\* was the receiver or one of its ancestors, no node is its own descendant
\* and count, enumerate and the destructor return on every node.
C10_NoCycle ==
  (pc = "build" /\ hist.addOk /\ hist.loopOk)
    => (Acyclic(_branches) /\ Terminates(_branches))

C10_Witness ==
  /\ pc = "build" /\ hist.addOk /\ hist.loopOk /\ hist.toOk
  /\ last.op = "replaceBranch" /\ last.found /\ last.a # last.b
  /\ \E n \in Nodes : count(_branches, n) = 3

\* The place of node n in the list l (n occurs in l).
Position(l, n) == CHOOSE i \in 1..Len(l) : l[i] = n

\* l lists the proper descendants of r, each once, in depth-first post-order,
\* left to right: a node comes after all of its descendants, and everything
\* below an earlier branch comes before everything below a later branch.
IsPostOrder(br, r, l) ==
  LET D == Descendants(br, r)
  IN /\ Range(l) = D
     /\ Len(l) = Cardinality(D)
     /\ r \notin Range(l)
     /\ \A x, y \in D : x \in Descendants(br, y) => Position(l, x) < Position(l, y)
     /\ \A p \in {r} \cup D : \A i, j \in 1..Len(br[p]) :
          i < j => \A x \in Subtree(br, br[p][i]), y \in Subtree(br, br[p][j]) :
                     Position(l, x) < Position(l, y)

\* C3: enumerate on a node R of a well-formed tree fills the list with exactly
\* the proper descendants of R, each once, never R, in depth-first post-order.
C3_EnumerateIsPostOrder ==
  (pc = "walk" /\ last.op = "enumerate" /\ hist.wfSnap)
    => IsPostOrder(_branches, last.self, all)

\* Root with children [A, B], A with child A1: the list is [A1, A, B].
C3_Witness ==
  /\ pc = "walk" /\ last.op = "enumerate" /\ hist.wfSnap
  /\ \E A, B, A1 \in Nodes :
       /\ _branches[last.self] = <<A, B>>
       /\ _branches[A] = <<A1>>
       /\ all = <<A1, A, B>>

\* C4: in a walk over the snapshot of a well-formed tree, whichever entries
\* are kept and whichever are detached and deleted, no entry the walk reaches
\* and no parent it detaches from has been deleted, and nothing is deleted
\* twice.
C4_TeardownDuringWalkIsSafe ==
  hist.wfSnap =>
    /\ ~(pc = "ub" /\ last.op \in {"keep", "destroy"})
    /\ \A n \in Nodes : freed[n] <= 1

\* A finished walk over three entries that deleted a child, later deleted the
\* node that had been its parent, and kept another entry.
C4_Witness ==
  /\ hist.wfSnap /\ pc = "walk" /\ idx > Len(all) /\ Len(all) = 3
  /\ \E c, p \in Nodes :
       /\ freed[c] = 1 /\ freed[p] = 1
       /\ _trunk[c] = p /\ c \notin Range(_branches[p])
  /\ \E k \in Range(all) : freed[k] = 0

DeletedExactly(S) == \A n \in Nodes : freed[n] = IF n \in S THEN 1 ELSE 0

\* C5 as stated: after any calls at all, deleting a node frees each node of
\* its subtree once and no other node.
C5_AsStated ==
  (last.op = "delete")
    => (pc = "deleted" /\ DeletedExactly(Subtree(_branches, last.self)))

\* C5: after calls that met the obligations (every node handed to addBranch
\* or put in by replaceBranch non-null, not a child of any node, and neither
\* the receiver nor one of its ancestors), deleting a node frees each node of
\* its subtree once and no other node; a node detached by removeBranch or
\* replaced out by replaceBranch, and not linked again, is not freed.
C5_DeleteFreesSubtreeOnce ==
  (last.op = "delete" /\ hist.addOk /\ hist.toOk /\ hist.loopOk)
    => (pc = "deleted" /\ DeletedExactly(Subtree(_branches, last.self)))

\* A deleted node with a branch left, and a node that once hung below it,
\* was detached, and is still alive.
C5_Witness ==
  /\ last.op = "delete" /\ pc = "deleted"
  /\ hist.addOk /\ hist.toOk /\ hist.loopOk
  /\ _branches[last.self] # <<>>
  /\ \E m \in Nodes :
       /\ _trunk[m] = last.self
       /\ m \notin Subtree(_branches, last.self)
       /\ freed[m] = 0

\* The pieces of the path s, read off the places of its separators: piece j
\* lies between separator j-1 and separator j.
SeparatorPlaces(s) == {i \in 1..Len(s) : s[i] = Separator}
PlaceOfSeparator(s, j) ==
  IF j = 0 THEN 0
  ELSE IF j > Cardinality(SeparatorPlaces(s)) THEN Len(s) + 1
  ELSE CHOOSE i \in SeparatorPlaces(s) :
         Cardinality({k \in SeparatorPlaces(s) : k <= i}) = j
Segments(s) ==
  [j \in 1..(Cardinality(SeparatorPlaces(s)) + 1) |->
     SubSeq(s, PlaceOfSeparator(s, j - 1) + 1, PlaceOfSeparator(s, j) - 1)]

\* The first child of p, in children order, named `segment`; NULL if none.
FirstChildNamed(p, segment) ==
  LET I == {i \in 1..Len(_branches[p]) : _name[_branches[p][i]] = segment}
  IN IF I = {} THEN NULL
     ELSE _branches[p][CHOOSE i \in I : \A j \in I : i <= j]

\* The rooted lookup: from segment k on, starting at cursor.
RECURSIVE LookupFrom(_, _, _)
LookupFrom(cursor, segments, k) ==
  IF cursor = NULL THEN NULL
  ELSE IF k > Len(segments) THEN cursor
  ELSE LookupFrom(FirstChildNamed(cursor, segments[k]), segments, k + 1)

RootedLookup(self, segments) ==
  IF _name[self] # segments[1] THEN NULL ELSE LookupFrom(self, segments, 2)

\* C6: for a non-empty path, find returns what the rooted lookup returns:
\* nothing unless the first segment is the receiver's name, the receiver for
\* that one segment alone, and for each further segment the first child of
\* that name, with no way back to a later child of the same name.
C6_FindIsRootedLookup ==
  (last.op = "find" /\ pc = "found")
    => last.ret = RootedLookup(last.self, Segments(last.path))

\* Two children of one name, the path's last segment found only below the
\* second: find returns nothing.
C6_Witness ==
  /\ last.op = "find" /\ pc = "found" /\ last.ret = NULL
  /\ \E i, j \in 1..Len(_branches[last.self]) :
       LET c1 == _branches[last.self][i]
           c2 == _branches[last.self][j]
       IN /\ i < j
          /\ _name[c1] = _name[c2]
          /\ \E g \in Range(_branches[c2]) :
               last.path = _name[last.self] \o <<Separator>> \o _name[c1]
                             \o <<Separator>> \o _name[g]

\* The first slot of v holding x (x occurs in v).
FirstSlot(v, x) ==
  CHOOSE i \in 1..Len(v) : v[i] = x /\ \A j \in 1..(i - 1) : v[j] # x

\* C7: replaceBranch(old, new) on a node holding old keeps the number of
\* children, puts new in the slot old had, leaves every other slot as it
\* was, makes the receiver new's parent and deletes nothing.
C7_ReplaceKeepsThePlace ==
  [][(pc = "build" /\ last'.op = "replaceBranch" /\ last'.b # NULL
        /\ last'.a \in Range(_branches[last'.self]))
      => LET self == last'.self
             i == FirstSlot(_branches[self], last'.a)
         IN /\ Len(_branches'[self]) = Len(_branches[self])
            /\ _branches'[self][i] = last'.b
            /\ \A j \in 1..Len(_branches[self]) :
                 j # i => _branches'[self][j] = _branches[self][j]
            /\ _trunk'[last'.b] = self
            /\ freed' = freed /\ freed'[last'.a] = 0
            /\ pc' = "build"]_vars

\* A replacement in the first of two slots; the node replaced out is alive.
C7_Witness ==
  /\ pc = "build" /\ last.op = "replaceBranch" /\ last.found
  /\ hist.addOk /\ hist.toOk /\ hist.loopOk
  /\ Len(_branches[last.self]) = 2
  /\ _branches[last.self][1] = last.b
  /\ _branches[last.self][2] \notin {last.a, last.b}
  /\ last.a \notin Range(_branches[last.self])
  /\ freed[last.a] = 0

\* C8: removeBranch(c) and replaceBranch(old, new) on a node that does not
\* hold c (old) raise no error and leave every children vector and every
\* parent pointer as they were.
C8_NotFoundChangesNothing ==
  [][(pc = "build" /\ last'.op \in {"removeBranch", "replaceBranch"}
        /\ last'.a \notin Range(_branches[last'.self]))
      => /\ _branches' = _branches
         /\ _trunk' = _trunk
         /\ last'.err = ""
         /\ pc' = "build"]_vars

\* removeBranch of a node that had been a child of the receiver and was
\* already taken out of it.
C8_Witness ==
  /\ pc = "build" /\ last.op = "removeBranch" /\ ~last.found
  /\ hist.addOk /\ hist.toOk /\ hist.loopOk
  /\ _trunk[last.a] = last.self
  /\ last.a \notin Range(_branches[last.self])

\* C9: addBranch(child) with a node appends it after the children there were
\* and returns it; addBranch(NULL) throws and leaves every children vector
\* and every parent pointer as they were.
C9_AddAppendsOrThrows ==
  [][(pc = "build" /\ last'.op = "addBranch")
      => IF last'.a # NULL
         THEN /\ _branches'[last'.self] = Append(_branches[last'.self], last'.a)
              /\ last'.ret = last'.a
              /\ last'.err = ""
         ELSE /\ last'.err = "throw"
              /\ _branches' = _branches
              /\ _trunk' = _trunk]_vars

\* A throw on a receiver that holds two children.
C9_Witness ==
  /\ pc = "build" /\ last.op = "addBranch" /\ last.err = "throw"
  /\ Len(_branches[last.self]) = 2
  /\ WellFormedTree(_branches, _trunk, last.self)
====
